---- MODULE Spec2Model ----
\* Model of pymdb/graph_loader.py: the GraphLoader session state machine
\* (EvalGraphLoader, SamplingGraphLoader, TrainGraphLoader), the byte layout
\* of the requests it sends and the decoding of a NEXT reply into a Graph.
\*
\* Representation.  Python integers are unbounded and TLC integers are 32 bit,
\* so every integer that goes through the packer is carried as a U64: four
\* 16-bit limbs, most significant first.  2**64 - 1 is then an exact value.
\* A str is the sequence of its code points, bytes is a sequence of 0..255,
\* a float32 is the 4 bytes of its bit pattern, None is the empty tuple.
EXTENDS Integers, Sequences, FiniteSets, TLC

----------------------------------------------------------------------------
\* Bounds of the model
MaxSize     == 2     \* largest size a creation reply reports
MaxFailures == 1     \* transport failures injected in one behaviour
MaxLen      == 2     \* longest num_neighbors / seed_ids list tried

None     == <<>>

Min(a, b) == IF a < b THEN a ELSE b

----------------------------------------------------------------------------
\* protocol.RequestType / protocol.StatusCode (one byte each on the wire)
GRAPH_LOADER_NEXT         == 11
GRAPH_LOADER_BEGIN        == 12
GRAPH_LOADER_CLOSE        == 13
EVAL_GRAPH_LOADER_NEW     == 14
SAMPLING_GRAPH_LOADER_NEW == 15
TRAIN_GRAPH_LOADER_NEW    == 16

SUCCESS          == "SUCCESS"
END_OF_ITERATION == "END_OF_ITERATION"
SERVER_ERROR     == "SERVER_ERROR"
StatusCode       == {SUCCESS, END_OF_ITERATION, SERVER_ERROR}

----------------------------------------------------------------------------
\* utils.packer
U64_MAX == <<65535, 65535, 65535, 65535>>        \* 2**64 - 1

\* the U64 of a small non-negative integer, and back
Big(n) == <<0, 0, n \div 65536, n % 65536>>
Val(v) == (v[3] * 65536) + v[4]

pack_byte(value) == <<value>>

pack_uint64(value) ==
    << value[1] \div 256, value[1] % 256, value[2] \div 256, value[2] % 256,
       value[3] \div 256, value[3] % 256, value[4] \div 256, value[4] % 256 >>

RECURSIVE pack_uint64_vector(_)
pack_uint64_vector(value) ==
    IF value = <<>> THEN <<>>
    ELSE pack_uint64(Head(value)) \o pack_uint64_vector(Tail(value))

\* UTF-8 encoding of one code point
utf8(cp) ==
    IF cp < 128 THEN <<cp>>
    ELSE IF cp < 2048 THEN <<192 + (cp \div 64), 128 + (cp % 64)>>
    ELSE IF cp < 65536
         THEN <<224 + (cp \div 4096), 128 + ((cp \div 64) % 64), 128 + (cp % 64)>>
    ELSE <<240 + (cp \div 262144), 128 + ((cp \div 4096) % 64),
           128 + ((cp \div 64) % 64), 128 + (cp % 64)>>

RECURSIVE pack_string(_)
pack_string(value) ==
    IF value = <<>> THEN <<>>
    ELSE utf8(Head(value)) \o pack_string(Tail(value))

\* data[lo:hi] of Python: 0-based, half-open, clamped to the buffer
Slice(data, lo, hi) ==
    IF lo >= Min(hi, Len(data)) THEN <<>>
    ELSE SubSeq(data, lo + 1, Min(hi, Len(data)))

\* struct-style decoders: defined on buffers of the exact width only
unpack_uint64_ok(data) == Len(data) = 8
unpack_uint64(data) ==
    << (data[1] * 256) + data[2], (data[3] * 256) + data[4],
       (data[5] * 256) + data[6], (data[7] * 256) + data[8] >>

unpack_uint64_vector_ok(data) == Len(data) % 8 = 0
unpack_uint64_vector(data) ==
    [i \in 1..(Len(data) \div 8) |-> unpack_uint64(SubSeq(data, (8 * i) - 7, 8 * i))]

unpack_float_vector_ok(data) == Len(data) % 4 = 0
unpack_float_vector(data) ==
    [i \in 1..(Len(data) \div 4) |-> SubSeq(data, (4 * i) - 3, 4 * i)]

RECURSIVE MapBig(_)
MapBig(xs) == IF xs = <<>> THEN <<>> ELSE <<Big(Head(xs))>> \o MapBig(Tail(xs))

----------------------------------------------------------------------------
\* torch.tensor(...).reshape(r, c): the flat data with a shape; reshape is
\* defined only when the element count matches
reshape_ok(flat, r, c) == Len(flat) = r * c
Tensor(flat, shape)    == [shape |-> shape, data |-> flat]

----------------------------------------------------------------------------
\* State
VARIABLES
    loaders,     \* the fields of each GraphLoader instance
    call,        \* the most recent call on the API: what it did and returned
    closeSent,   \* per instance, CLOSE requests handed to client._send
    failures,    \* transport failures so far
    pc,          \* where the caller's "for batch in session" loop is
    yielded,     \* batches that loop has received
    sentLog,     \* opcodes of the requests sent since the loop started
    server,      \* the server's side of the session the loop runs on
    channel      \* the client's connection: requests sent and not yet answered

loop == <<pc, yielded, sentLog, server>>
vars == <<loaders, call, closeSent, failures, pc, yielded, sentLog, server, channel>>

\* an instance whose constructor has not run yet
NoLoader ==
    [ cls |-> "None", returned |-> FALSE,
      tensor_store_name |-> <<>>, batch_size |-> 0, num_neighbors |-> <<>>,
      num_seeds |-> 0, seed_ids |-> <<>>,
      graph_loader_id |-> None, size |-> None, closed |-> TRUE,
      created |-> <<>> ]    \* history: the payload _new read from the transport

NoGraph ==
    [ node_features |-> Tensor(<<>>, <<0>>), node_labels |-> Tensor(<<>>, <<0>>),
      edge_index |-> Tensor(<<>>, <<0>>), node_ids |-> <<>>,
      num_seeds |-> None, feature_size |-> None ]

\* what the transport does with one round trip: fail is "none", "send" (the
\* _send raises) or "recv" (the _recv raises); else _recv returns (data, code)
Reply(fail, data, code) == [fail |-> fail, data |-> data, code |-> code]
NoReply == Reply("none", <<>>, SUCCESS)

\* the arguments of a constructor
Cfg(name, bs, nn, ns, seeds) ==
    [ tensor_store_name |-> name, batch_size |-> bs, num_neighbors |-> nn,
      num_seeds |-> ns, seed_ids |-> seeds ]
NoArgs == Cfg(<<>>, 0, <<>>, 0, <<>>)

\* the record of one call.  ret is "None", "self", "int" (in value), "bool"
\* (in flag) or "Graph" (in graph); raised is "None" when the call returned
Call(op, s, raised, ret, value, graph, msg, sends, recvs, rep, wasClosed) ==
    [ op |-> op, self |-> s, raised |-> raised, ret |-> ret, value |-> value,
      flag |-> FALSE, graph |-> graph, msg |-> msg, sends |-> sends,
      recvs |-> recvs, rep |-> rep, wasClosed |-> wasClosed, args |-> NoArgs ]

NoCall == Call("none", 0, "None", "None", None, NoGraph, <<>>, 0, 0, NoReply, TRUE)

\* client._send(msg) then client._recv(): how far the round trip gets
\* mutant: a request whose _send raised is sent a second time
Sends_Retry(rep) == IF rep.fail = "send" THEN 2 ELSE 1

Sends(rep) == 1
Recvs(rep) == IF rep.fail = "send" THEN 0 ELSE 1

----------------------------------------------------------------------------
\* GraphLoader.__init__ (lines 67-85): validation, then the fields
\* mutant: the batch_size check accepts 0
GraphLoader_init_raises_OffByOne(batch_size, num_neighbors) ==
    \/ batch_size < 0
    \/ Len(num_neighbors) = 0

GraphLoader_init_raises(batch_size, num_neighbors) ==
    \/ batch_size < 1
    \/ Len(num_neighbors) = 0

\* mutant: 0 is taken for the "all neighbors" sentinel too
Normalize_ZeroToo(x) == IF x <= 0 THEN U64_MAX ELSE Big(x)

Normalize(x) == IF x < 0 THEN U64_MAX ELSE Big(x)

GraphLoader_init(self, tensor_store_name, batch_size, num_neighbors) ==
    [ self EXCEPT
        !.tensor_store_name = tensor_store_name,
        !.batch_size = batch_size,
        !.num_neighbors = [i \in 1..Len(num_neighbors) |-> Normalize(num_neighbors[i])],
        !.graph_loader_id = None,
        !.size = None,
        !.closed = TRUE ]

\* the creation messages of the three _new methods
EvalNewMsg(self) ==
    pack_byte(EVAL_GRAPH_LOADER_NEW)
    \o pack_uint64(Big(self.batch_size))
    \o pack_uint64(Big(Len(self.num_neighbors)))
    \o pack_uint64(Big(Len(self.tensor_store_name)))
    \o pack_uint64_vector(self.num_neighbors)
    \o pack_string(self.tensor_store_name)

\* mutant: num_seeds packed ahead of batch_size
SamplingNewMsg_SeedsFirst(self) ==
    pack_byte(SAMPLING_GRAPH_LOADER_NEW)
    \o pack_uint64(Big(self.num_seeds))
    \o pack_uint64(Big(self.batch_size))
    \o pack_uint64(Big(Len(self.num_neighbors)))
    \o pack_uint64(Big(Len(self.tensor_store_name)))
    \o pack_uint64_vector(self.num_neighbors)
    \o pack_string(self.tensor_store_name)

SamplingNewMsg(self) ==
    pack_byte(SAMPLING_GRAPH_LOADER_NEW)
    \o pack_uint64(Big(self.batch_size))
    \o pack_uint64(Big(self.num_seeds))
    \o pack_uint64(Big(Len(self.num_neighbors)))
    \o pack_uint64(Big(Len(self.tensor_store_name)))
    \o pack_uint64_vector(self.num_neighbors)
    \o pack_string(self.tensor_store_name)

TrainNewMsg(self) ==
    pack_byte(TRAIN_GRAPH_LOADER_NEW)
    \o pack_uint64(Big(self.batch_size))
    \o pack_uint64(Big(Len(self.num_neighbors)))
    \o pack_uint64(Big(Len(self.tensor_store_name)))
    \o pack_uint64(Big(Len(self.seed_ids)))
    \o pack_uint64_vector(self.num_neighbors)
    \o pack_string(self.tensor_store_name)
    \o pack_uint64_vector(MapBig(self.seed_ids))

\* "Handle response" of _new: the fields after the reply (or the failure)
NewRaised(rep) ==
    IF rep.fail # "none" THEN "TransportError"
    ELSE IF ~unpack_uint64_ok(Slice(rep.data, 0, 8)) THEN "DecodeError"
    ELSE IF ~unpack_uint64_ok(Slice(rep.data, 8, 16)) THEN "DecodeError"
    ELSE "None"

\* mutant: _new leaves _closed set
NewSelf_StaysClosed(self, rep) ==
    IF NewRaised(rep) # "None" THEN self
    ELSE [self EXCEPT !.graph_loader_id = unpack_uint64(Slice(rep.data, 0, 8)),
                      !.size = unpack_uint64(Slice(rep.data, 8, 16)),
                      !.returned = TRUE]

NewSelf(self, rep) ==
    IF rep.fail # "none" THEN self
    ELSE IF ~unpack_uint64_ok(Slice(rep.data, 0, 8)) THEN self
    ELSE IF ~unpack_uint64_ok(Slice(rep.data, 8, 16))
         THEN [self EXCEPT !.graph_loader_id = unpack_uint64(Slice(rep.data, 0, 8))]
    ELSE [self EXCEPT !.graph_loader_id = unpack_uint64(Slice(rep.data, 0, 8)),
                      !.size = unpack_uint64(Slice(rep.data, 8, 16)),
                      !.closed = FALSE,
                      !.returned = TRUE]

\* a constructor that raised before any I/O
ArgumentError(op, s, self, cfg) ==
    /\ loaders' = [loaders EXCEPT ![s] = self]
    /\ call' = [Call(op, s, "ValueError", "None", None, NoGraph, <<>>, 0, 0, NoReply, TRUE)
                   EXCEPT !.args = cfg]
    /\ UNCHANGED <<closeSent, failures>>

\* a constructor that reached _new
Created(op, s, self, msg, rep, cfg) ==
    /\ rep.fail # "none" => failures < MaxFailures
    /\ loaders' = [loaders EXCEPT ![s] =
                       [NewSelf(self, rep) EXCEPT
                           !.created = IF rep.fail = "none" THEN rep.data ELSE <<>>]]
    /\ call' = [Call(op, s, NewRaised(rep), "None", None, NoGraph, msg,
                     Sends(rep), Recvs(rep), rep, TRUE) EXCEPT !.args = cfg]
    /\ failures' = IF rep.fail # "none" THEN failures + 1 ELSE failures
    /\ UNCHANGED closeSent

\* EvalGraphLoader(client, tensor_store_name, batch_size, num_neighbors)
EvalGraphLoader(s, cfg, rep) ==
    /\ loaders[s].cls = "None"
    /\ LET born == [loaders[s] EXCEPT !.cls = "EvalGraphLoader"]
           self == GraphLoader_init(born, cfg.tensor_store_name, cfg.batch_size,
                                    cfg.num_neighbors)
       IN  IF GraphLoader_init_raises(cfg.batch_size, cfg.num_neighbors)
           THEN ArgumentError("EvalGraphLoader", s, born, cfg)
           ELSE Created("EvalGraphLoader", s, self, EvalNewMsg(self), rep, cfg)

\* SamplingGraphLoader(client, tensor_store_name, batch_size, num_neighbors, num_seeds)
SamplingGraphLoader(s, cfg, rep) ==
    /\ loaders[s].cls = "None"
    /\ LET born == [loaders[s] EXCEPT !.cls = "SamplingGraphLoader"]
           base == GraphLoader_init(born, cfg.tensor_store_name, cfg.batch_size,
                                    cfg.num_neighbors)
           self == [base EXCEPT !.num_seeds = cfg.num_seeds]
       IN  IF cfg.num_seeds < 1
           THEN ArgumentError("SamplingGraphLoader", s, born, cfg)
           ELSE IF GraphLoader_init_raises(cfg.batch_size, cfg.num_neighbors)
           THEN ArgumentError("SamplingGraphLoader", s, born, cfg)
           ELSE Created("SamplingGraphLoader", s, self, SamplingNewMsg(self), rep, cfg)

\* TrainGraphLoader(client, tensor_store_name, batch_size, num_neighbors, seed_ids)
TrainGraphLoader(s, cfg, rep) ==
    /\ loaders[s].cls = "None"
    /\ LET born == [loaders[s] EXCEPT !.cls = "TrainGraphLoader"]
           base == GraphLoader_init(born, cfg.tensor_store_name, cfg.batch_size,
                                    cfg.num_neighbors)
           self == [base EXCEPT !.seed_ids = cfg.seed_ids]
       IN  IF GraphLoader_init_raises(cfg.batch_size, cfg.num_neighbors)
           THEN ArgumentError("TrainGraphLoader", s, born, cfg)
           ELSE IF Len(cfg.seed_ids) = 0
           THEN ArgumentError("TrainGraphLoader", s, base, cfg)
           ELSE Created("TrainGraphLoader", s, self, TrainNewMsg(self), rep, cfg)

----------------------------------------------------------------------------
\* utils.decorators.check_closed: the wrapped method raises when the
\* instance is closed, before its body runs
check_closed(self) == self.closed

\* the session-scoped requests: opcode, then the instance's own id
\* mutant: the id kept in a class attribute, so that every instance sends the
\* id of the session created last
RequestMsg_Shared(opcode, self) ==
    pack_byte(opcode)
        \o pack_uint64(Big(40 + Cardinality({t \in DOMAIN loaders : loaders[t].created # <<>>})))

RequestMsg(opcode, self) == pack_byte(opcode) \o pack_uint64(self.graph_loader_id)

\* a guarded call on a closed instance: raises, nothing else happens
InvalidState(op, s) ==
    /\ call' = Call(op, s, "InvalidState", "None", None, NoGraph, <<>>, 0, 0, NoReply,
                    loaders[s].closed)
    /\ UNCHANGED <<loaders, closeSent, failures>>

\* the transport raised inside a call on an open instance
Transport(rep) ==
    /\ rep.fail # "none" => failures < MaxFailures
    /\ failures' = IF rep.fail # "none" THEN failures + 1 ELSE failures

\* GraphLoader.is_closed (lines 97-98)
is_closed(s) ==
    /\ loaders[s].returned
    /\ call' = [Call("is_closed", s, "None", "bool", None, NoGraph, <<>>, 0, 0, NoReply,
                     loaders[s].closed) EXCEPT !.flag = loaders[s].closed]
    /\ UNCHANGED <<loaders, closeSent, failures>>

\* GraphLoader._close (lines 177-188): the fields after the round trip
\* mutant: _close leaves the fields as they were
CloseSelf_Noop(self, rep) == self

\* mutant: _close clears the fields before the round trip
CloseSelf_Eager(self, rep) ==
    [self EXCEPT !.graph_loader_id = None, !.size = None, !.closed = TRUE]

CloseSelf(self, rep) ==
    IF rep.fail # "none" THEN self
    ELSE [self EXCEPT !.graph_loader_id = None, !.size = None, !.closed = TRUE]

\* GraphLoader.close (lines 101-103)
close(s, rep) ==
    /\ loaders[s].returned
    /\ IF ~loaders[s].closed
       THEN /\ Transport(rep)
            /\ loaders' = [loaders EXCEPT ![s] = CloseSelf(loaders[s], rep)]
            /\ closeSent' = [closeSent EXCEPT ![s] = @ + Sends(rep)]
            /\ call' = Call("close", s,
                            IF rep.fail # "none" THEN "TransportError" ELSE "None",
                            "None", None, NoGraph,
                            RequestMsg(GRAPH_LOADER_CLOSE, loaders[s]),
                            Sends(rep), Recvs(rep), rep, loaders[s].closed)
       ELSE /\ rep = NoReply
            /\ call' = Call("close", s, "None", "None", None, NoGraph, <<>>, 0, 0,
                            NoReply, loaders[s].closed)
            /\ UNCHANGED <<loaders, closeSent, failures>>

\* GraphLoader.size (lines 110-112); __len__ (lines 106-107) returns size()
\* mutant: size without the check_closed decorator
SizeCall_NoGuard(op, s) ==
    /\ loaders[s].returned
    /\ call' = Call(op, s, "None", "int", loaders[s].size, NoGraph, <<>>, 0, 0,
                    NoReply, loaders[s].closed)
    /\ UNCHANGED <<loaders, closeSent, failures>>

SizeCall(op, s) ==
    /\ loaders[s].returned
    /\ IF check_closed(loaders[s])
       THEN InvalidState(op, s)
       ELSE /\ call' = Call(op, s, "None", "int", loaders[s].size, NoGraph, <<>>, 0, 0,
                            NoReply, loaders[s].closed)
            /\ UNCHANGED <<loaders, closeSent, failures>>

\* mutant: size() answering with the batch size instead of the session's size
size_BatchSize(s) ==
    /\ loaders[s].returned
    /\ IF check_closed(loaders[s])
       THEN InvalidState("size", s)
       ELSE /\ call' = Call("size", s, "None", "int", Big(loaders[s].batch_size),
                            NoGraph, <<>>, 0, 0, NoReply, loaders[s].closed)
            /\ UNCHANGED <<loaders, closeSent, failures>>

size(s)     == SizeCall("size", s)
len__(s)    == SizeCall("__len__", s)

\* GraphLoader.__iter__ (lines 115-118) with _begin (lines 167-175)
\* mutant: _begin sends BEGIN and does not read the reply
iter__NoRecv(s, rep) ==
    /\ loaders[s].returned
    /\ IF check_closed(loaders[s])
       THEN rep = NoReply /\ InvalidState("__iter__", s)
       ELSE /\ Transport(rep)
            /\ call' = Call("__iter__", s,
                            IF rep.fail = "send" THEN "TransportError" ELSE "None",
                            IF rep.fail = "send" THEN "None" ELSE "self",
                            None, NoGraph,
                            RequestMsg(GRAPH_LOADER_BEGIN, loaders[s]),
                            Sends(rep), 0, rep, loaders[s].closed)
            /\ UNCHANGED <<loaders, closeSent>>

iter__(s, rep) ==
    /\ loaders[s].returned
    /\ IF check_closed(loaders[s])
       THEN rep = NoReply /\ InvalidState("__iter__", s)
       ELSE /\ Transport(rep)
            /\ call' = Call("__iter__", s,
                            IF rep.fail # "none" THEN "TransportError" ELSE "None",
                            IF rep.fail # "none" THEN "None" ELSE "self",
                            None, NoGraph,
                            RequestMsg(GRAPH_LOADER_BEGIN, loaders[s]),
                            Sends(rep), Recvs(rep), rep, loaders[s].closed)
            /\ UNCHANGED <<loaders, closeSent>>

----------------------------------------------------------------------------
\* GraphLoader.__next__, lines 135-165: the header, then the four sections,
\* each slice starting where the previous one ended
Header(data, k) == Slice(data, 8 * k, (8 * k) + 8)
HeaderOk(data)  == \A k \in 0..3 : unpack_uint64_ok(Header(data, k))

FeaturesHi(data) ==
    32 + (4 * Val(unpack_uint64(Header(data, 0))) * Val(unpack_uint64(Header(data, 3))))
LabelsHi(data) == FeaturesHi(data) + (8 * Val(unpack_uint64(Header(data, 0))))
\* mutant: the edge index taken as num_edges integers, not 2 * num_edges
EdgesHi_OneRow(data) == LabelsHi(data) + (8 * Val(unpack_uint64(Header(data, 1))))

EdgesHi(data)  == LabelsHi(data) + (8 * 2 * Val(unpack_uint64(Header(data, 1))))
IdsHi(data)    == EdgesHi(data) + (8 * Val(unpack_uint64(Header(data, 0))))

DecodeOk(data) ==
    /\ HeaderOk(data)
    /\ LET num_nodes    == Val(unpack_uint64(Header(data, 0)))
           num_edges    == Val(unpack_uint64(Header(data, 1)))
           feature_size == Val(unpack_uint64(Header(data, 3)))
           features == Slice(data, 32, FeaturesHi(data))
           labels   == Slice(data, FeaturesHi(data), LabelsHi(data))
           edges    == Slice(data, LabelsHi(data), EdgesHi(data))
           ids      == Slice(data, EdgesHi(data), IdsHi(data))
       IN  /\ unpack_float_vector_ok(features)
           /\ reshape_ok(unpack_float_vector(features), num_nodes, feature_size)
           /\ unpack_uint64_vector_ok(labels)
           /\ unpack_uint64_vector_ok(edges)
           /\ reshape_ok(unpack_uint64_vector(edges), 2, num_edges)
           /\ unpack_uint64_vector_ok(ids)

Decode(data) ==
    LET num_nodes    == unpack_uint64(Header(data, 0))
        num_edges    == unpack_uint64(Header(data, 1))
        num_seeds    == unpack_uint64(Header(data, 2))
        feature_size == unpack_uint64(Header(data, 3))
    IN  [ node_features |->
              Tensor(unpack_float_vector(Slice(data, 32, FeaturesHi(data))),
                     <<Val(num_nodes), Val(feature_size)>>),
          node_labels |->
              LET v == unpack_uint64_vector(Slice(data, FeaturesHi(data), LabelsHi(data)))
              IN  Tensor(v, <<Len(v)>>),
          edge_index |->
              Tensor(unpack_uint64_vector(Slice(data, LabelsHi(data), EdgesHi(data))),
                     <<2, Val(num_edges)>>),
          node_ids |-> unpack_uint64_vector(Slice(data, EdgesHi(data), IdsHi(data))),
          num_seeds |-> num_seeds,
          feature_size |-> feature_size ]

\* GraphLoader.__next__ (lines 121-165)
\* mutant: a payload without nodes is taken for the end of the iteration
NextRaised_EmptyIsEnd(rep) ==
    IF rep.fail # "none" THEN "TransportError"
    ELSE IF rep.code = END_OF_ITERATION THEN "StopIteration"
    ELSE IF ~DecodeOk(rep.data) THEN "DecodeError"
    ELSE IF Val(unpack_uint64(Header(rep.data, 0))) = 0 THEN "StopIteration"
    ELSE "None"

\* mutant: the status code is not looked at
NextRaised_IgnoresEnd(rep) ==
    IF rep.fail # "none" THEN "TransportError"
    ELSE IF ~DecodeOk(rep.data) THEN "DecodeError"
    ELSE "None"

NextRaised(rep) ==
    IF rep.fail # "none" THEN "TransportError"
    ELSE IF rep.code = END_OF_ITERATION THEN "StopIteration"
    ELSE IF ~DecodeOk(rep.data) THEN "DecodeError"
    ELSE "None"

\* __next__ assigns no field of the instance, whatever the reply
\* mutant: __next__ closes the instance locally at the end of the iteration
NextSelf_AutoClose(self, rep) ==
    IF rep.fail = "none" /\ rep.code = END_OF_ITERATION
    THEN [self EXCEPT !.graph_loader_id = None, !.size = None, !.closed = TRUE]
    ELSE self

NextSelf(self, rep) == self

next__(s, rep) ==
    /\ loaders[s].returned
    /\ IF check_closed(loaders[s])
       THEN rep = NoReply /\ InvalidState("__next__", s)
       ELSE /\ Transport(rep)
            /\ call' = Call("__next__", s, NextRaised(rep),
                            IF NextRaised(rep) = "None" THEN "Graph" ELSE "None",
                            None,
                            IF NextRaised(rep) = "None" THEN Decode(rep.data) ELSE NoGraph,
                            RequestMsg(GRAPH_LOADER_NEXT, loaders[s]),
                            Sends(rep), Recvs(rep), rep, loaders[s].closed)
            /\ loaders' = [loaders EXCEPT ![s] = NextSelf(loaders[s], rep)]
            /\ UNCHANGED closeSent

----------------------------------------------------------------------------
\* The environment: the arguments callers pass and the replies of the server

SeqsUpTo(S, n) == UNION {[1..k -> S] : k \in 0..n}

\* "a", "é" (2 bytes in UTF-8), "a€" (1 + 3 bytes)
Names == {<<97>>, <<233>>, <<97, 8364>>}

\* every combination of valid and invalid arguments, for the constructors
BaseArgs   == {<<n, b, nn>> : n \in Names, b \in {0, 1, 2},
                              nn \in SeqsUpTo({-1, 0, 5}, MaxLen)}
AllEval     == {Cfg(a[1], a[2], a[3], 0, <<>>) : a \in BaseArgs}
AllSampling == {Cfg(a[1], a[2], a[3], ns, <<>>) : a \in BaseArgs, ns \in {0, 1, 3}}
AllTrain    == {Cfg(a[1], a[2], a[3], 0, ids) : a \in BaseArgs,
                                               ids \in SeqsUpTo({7, 9}, MaxLen)}

\* a few of them, for the sessions whose life cycle is explored
SomeEval     == {Cfg(<<97>>, 2, <<5, -1>>, 0, <<>>), Cfg(<<97>>, 0, <<5>>, 0, <<>>)}
SomeSampling == {Cfg(<<233>>, 1, <<-1>>, 3, <<>>), Cfg(<<233>>, 1, <<-1>>, 0, <<>>)}
SomeTrain    == {Cfg(<<97>>, 1, <<0>>, 0, <<7, 9>>), Cfg(<<97>>, 1, <<0>>, 0, <<>>),
                 Cfg(<<97>>, 1, <<>>, 0, <<7>>)}

ServerIds == {41, 42}

TransportFailures == {Reply("send", <<>>, SUCCESS), Reply("recv", <<>>, SUCCESS)}

\* replies to a *_NEW request: session_id then size; also a reply cut short
\* and an error status with a 16-byte payload
NewReplies ==
    {Reply("none", pack_uint64(Big(id)) \o pack_uint64(Big(n)), SUCCESS) :
        id \in ServerIds, n \in 0..MaxSize}
    \cup {Reply("none", <<>>, SUCCESS), Reply("none", pack_uint64(Big(41)), SUCCESS),
          Reply("none", <<>>, SERVER_ERROR),
          Reply("none", pack_uint64(Big(0)) \o pack_uint64(Big(0)), SERVER_ERROR)}
    \cup TransportFailures

\* replies to BEGIN and CLOSE: a status, no payload
StatusReplies == {Reply("none", <<>>, c) : c \in StatusCode} \cup TransportFailures

\* a NEXT payload as the server lays it out: header, features, labels, edge
\* index, ids.  Every element has a value of its own.
FloatBits(k) == <<63, 128, 0, k>>
EncodeGraph(num_nodes, num_edges, num_seeds, feature_size, tag) ==
    LET features == [k \in 1..(num_nodes * feature_size) |-> FloatBits(tag + k)]
        RECURSIVE Flat(_)
        Flat(fs) == IF fs = <<>> THEN <<>> ELSE Head(fs) \o Flat(Tail(fs))
    IN  pack_uint64(Big(num_nodes)) \o pack_uint64(Big(num_edges))
        \o pack_uint64(Big(num_seeds)) \o pack_uint64(Big(feature_size))
        \o Flat(features)
        \o pack_uint64_vector([i \in 1..num_nodes |-> Big(tag + 100 + i)])
        \o pack_uint64_vector([j \in 1..(2 * num_edges) |-> Big(tag + 200 + j)])
        \o pack_uint64_vector([i \in 1..num_nodes |-> Big(tag + 300 + i)])

EmptyBatch == EncodeGraph(0, 0, 0, 0, 0)
Batches ==
    {EmptyBatch, EncodeGraph(0, 0, 0, 3, 0), EncodeGraph(1, 0, 1, 2, 0),
     EncodeGraph(2, 1, 1, 1, 0), EncodeGraph(2, 1, 1, 1, 10)}

\* malformed payloads: cut short, or with bytes after the ids
Malformed ==
    LET g == EncodeGraph(2, 1, 1, 1, 0)
        h == EncodeGraph(1, 0, 1, 2, 0)
    IN  {SubSeq(g, 1, Len(g) - 8), SubSeq(g, 1, Len(g) - 3), SubSeq(g, 1, 20),
         SubSeq(h, 1, Len(h) - 8), g \o <<0>>, g \o pack_uint64(Big(5)), EmptyBatch \o <<9>>, <<>>}

NextReplies ==
    {Reply("none", d, SUCCESS) : d \in Batches \cup Malformed}
    \cup {Reply("none", d, END_OF_ITERATION) : d \in {<<>>, EmptyBatch, <<1, 2, 3>>}}
    \cup {Reply("none", d, SERVER_ERROR) : d \in {<<>>, EmptyBatch}}
    \cup TransportFailures

----------------------------------------------------------------------------
\* One GraphLoader instance, driven by a caller that completes each call
\* before the next
Sessions == DOMAIN loaders

InitWith(instances) ==
    /\ loaders = [s \in instances |-> NoLoader]
    /\ call = NoCall
    /\ closeSent = [s \in instances |-> 0]
    /\ failures = 0

\* nothing is in flight on the connection; answered is the request whose
\* reply the most recent call read
NoChannel == [pending |-> <<>>, answered |-> <<>>]

\* no loop is running
NoLoop ==
    /\ pc = "none"
    /\ yielded = 0
    /\ sentLog = <<>>
    /\ server = [size |-> 0, cursor |-> 0]
    /\ channel = NoChannel

Init == InitWith({1}) /\ NoLoop

NewEval     == \E s \in {t \in Sessions : loaders[t].cls = "None"}, cfg \in SomeEval, rep \in NewReplies :
                   EvalGraphLoader(s, cfg, rep) /\ UNCHANGED <<loop, channel>>
NewSampling == \E s \in {t \in Sessions : loaders[t].cls = "None"}, cfg \in SomeSampling, rep \in NewReplies :
                   SamplingGraphLoader(s, cfg, rep) /\ UNCHANGED <<loop, channel>>
NewTrain    == \E s \in {t \in Sessions : loaders[t].cls = "None"}, cfg \in SomeTrain, rep \in NewReplies :
                   TrainGraphLoader(s, cfg, rep) /\ UNCHANGED <<loop, channel>>
DoIsClosed  == \E s \in Sessions :
                   is_closed(s) /\ UNCHANGED <<loop, channel>>
DoClose     == \E s \in Sessions, rep \in StatusReplies \cup {NoReply} :
                   close(s, rep) /\ UNCHANGED <<loop, channel>>
DoSize      == \E s \in Sessions :
                   size(s) /\ UNCHANGED <<loop, channel>>
DoLen       == \E s \in Sessions :
                   len__(s) /\ UNCHANGED <<loop, channel>>
DoIter      == \E s \in Sessions, rep \in StatusReplies \cup {NoReply} :
                   iter__(s, rep) /\ UNCHANGED <<loop, channel>>
DoNext      == \E s \in Sessions, rep \in NextReplies \cup {NoReply} :
                   next__(s, rep) /\ UNCHANGED <<loop, channel>>

Next ==
    \/ NewEval
    \/ NewSampling
    \/ NewTrain
    \/ DoIsClosed
    \/ DoClose
    \/ DoSize
    \/ DoLen
    \/ DoIter
    \/ DoNext

Spec == Init /\ [][Next]_vars

----------------------------------------------------------------------------
\* The constructors alone, over every combination of arguments
CtorEval     == loaders[1].cls = "None" /\ \E cfg \in AllEval, rep \in NewReplies :
                    EvalGraphLoader(1, cfg, rep) /\ UNCHANGED <<loop, channel>>
CtorSampling == loaders[1].cls = "None" /\ \E cfg \in AllSampling, rep \in NewReplies :
                    SamplingGraphLoader(1, cfg, rep) /\ UNCHANGED <<loop, channel>>
CtorTrain    == loaders[1].cls = "None" /\ \E cfg \in AllTrain, rep \in NewReplies :
                    TrainGraphLoader(1, cfg, rep) /\ UNCHANGED <<loop, channel>>

CtorNext ==
    \/ CtorEval
    \/ CtorSampling
    \/ CtorTrain

CtorSpec == Init /\ [][CtorNext]_vars

----------------------------------------------------------------------------
\* "for batch in session": iter(session) once, then next(session) until it
\* raises StopIteration, against a server that keeps a cursor per session:
\* BEGIN resets it, the k-th NEXT after it gets a batch while k <= size and
\* END_OF_ITERATION after that.
ValidEval     == {c \in SomeEval : ~GraphLoader_init_raises(c.batch_size, c.num_neighbors)}
ValidSampling == {c \in SomeSampling : c.num_seeds >= 1}
ValidTrain    == {c \in SomeTrain : /\ Len(c.seed_ids) > 0
                                    /\ ~GraphLoader_init_raises(c.batch_size, c.num_neighbors)}

ServerNew(id)  == Reply("none", pack_uint64(Big(id)) \o pack_uint64(Big(server.size)), SUCCESS)
ServerBegin    == Reply("none", <<>>, SUCCESS)
ServerNext     ==
    IF server.cursor < server.size
    THEN {Reply("none", d, SUCCESS) : d \in Batches}
    ELSE {Reply("none", <<>>, END_OF_ITERATION)}

LoopInit ==
    /\ InitWith({1})
    /\ pc = "new"
    /\ yielded = 0
    /\ sentLog = <<>>
    /\ server \in {[size |-> n, cursor |-> 0] : n \in 0..MaxSize}
    /\ channel = NoChannel

Opened == pc' = "iter" /\ UNCHANGED <<yielded, sentLog, server, channel>>

LoopNewEval ==
    /\ pc = "new"
    /\ \E cfg \in ValidEval, id \in ServerIds : EvalGraphLoader(1, cfg, ServerNew(id))
    /\ Opened

LoopNewSampling ==
    /\ pc = "new"
    /\ \E cfg \in ValidSampling, id \in ServerIds : SamplingGraphLoader(1, cfg, ServerNew(id))
    /\ Opened

LoopNewTrain ==
    /\ pc = "new"
    /\ \E cfg \in ValidTrain, id \in ServerIds : TrainGraphLoader(1, cfg, ServerNew(id))
    /\ Opened

\* iter(session)
LoopIter ==
    /\ pc = "iter"
    /\ iter__(1, ServerBegin)
    /\ sentLog' = sentLog \o SubSeq(call'.msg, 1, 1)
    /\ server' = [server EXCEPT !.cursor = 0]
    /\ pc' = IF call'.raised = "None" THEN "next" ELSE "raised"
    /\ UNCHANGED <<yielded, channel>>

\* next(session): a batch runs the loop body, StopIteration ends the loop,
\* any other exception leaves it
LoopStep ==
    /\ pc = "next"
    /\ \E rep \in ServerNext : next__(1, rep)
    /\ sentLog' = sentLog \o SubSeq(call'.msg, 1, 1)
    /\ server' = [server EXCEPT !.cursor = @ + 1]
    /\ yielded' = IF call'.raised = "None" THEN yielded + 1 ELSE yielded
    /\ pc' = CASE call'.raised = "None" -> "next"
              [] call'.raised = "StopIteration" -> "done"
              [] OTHER -> "raised"
    /\ UNCHANGED channel

LoopNext ==
    \/ LoopNewEval
    \/ LoopNewSampling
    \/ LoopNewTrain
    \/ LoopIter
    \/ LoopStep

LoopSpec == LoopInit /\ [][LoopNext]_vars /\ WF_vars(LoopNext)

----------------------------------------------------------------------------
\* Properties of the life cycle (specification Spec)

Constructors == {"EvalGraphLoader", "SamplingGraphLoader", "TrainGraphLoader"}
Guarded      == {"__iter__", "__next__", "size", "__len__"}

\* C1: on a closed session each of begin (__iter__), next (__next__) and
\* size (size / __len__) fails with the invalid-state error and calls neither
\* client._send nor client._recv.
C1_ClosedCallsFail ==
    (call.op \in Guarded /\ call.wasClosed)
        => /\ call.raised = "InvalidState"
           /\ call.sends = 0
           /\ call.recvs = 0
           /\ call.msg = <<>>

C1_Witness ==
    /\ call.op = "__next__"
    /\ call.wasClosed
    /\ call.raised = "InvalidState"
    /\ closeSent[call.self] = 1

\* C2: is_closed() called right after a constructor returned gives false;
\* called right after a close() that returned, the first or a repeated one,
\* it gives true.  This holds for the three variants.
C2_IsClosedFollowsLifecycle ==
    [][ call'.op = "is_closed" =>
          /\ (call.op \in Constructors /\ call.raised = "None" /\ call.self = call'.self)
                => call'.flag = FALSE
          /\ (call.op = "close" /\ call.raised = "None" /\ call.self = call'.self)
                => call'.flag = TRUE ]_vars

C2_Witness ==
    /\ call.op = "is_closed"
    /\ call.flag = TRUE
    /\ closeSent[call.self] = 1
    /\ loaders[call.self].cls = "TrainGraphLoader"

\* C3: close() on a closed session sends and receives nothing, and while the
\* transport has not failed at most one CLOSE request was sent per session.
C3_CloseOnce ==
    /\ (call.op = "close" /\ call.wasClosed)
          => (call.sends = 0 /\ call.recvs = 0 /\ call.msg = <<>>)
    /\ failures = 0 => \A s \in Sessions : closeSent[s] <= 1

C3_Witness ==
    /\ call.op = "close"
    /\ call.wasClosed
    /\ call.raised = "None"
    /\ failures = 0
    /\ closeSent[call.self] = 1

\* C4: a session that is closed stays closed under every call, and a session
\* becomes closed only in a close() call on it.
C4_ClosedIsTerminal ==
    [][ \A s \in Sessions :
          /\ (loaders[s].returned /\ loaders[s].closed) => loaders'[s].closed
          /\ (loaders[s].returned /\ ~loaders[s].closed /\ loaders'[s].closed)
                => (call'.op = "close" /\ call'.self = s) ]_vars

C4_Witness ==
    /\ call.op = "__iter__"
    /\ call.wasClosed
    /\ loaders[call.self].returned
    /\ loaders[call.self].closed

----------------------------------------------------------------------------
\* Properties of the constructors (specification CtorSpec)

\* the wire form of a small integer and of 2**64 - 1, written out
Wire(n) == <<0, 0, 0, 0, 0, 0, 0, n>>
AllOnes == <<255, 255, 255, 255, 255, 255, 255, 255>>

RECURSIVE WireNeighbors(_)
WireNeighbors(nn) ==
    IF nn = <<>> THEN <<>>
    ELSE (IF Head(nn) < 0 THEN AllOnes ELSE Wire(Head(nn))) \o WireNeighbors(Tail(nn))

RECURSIVE WireSeeds(_)
WireSeeds(ids) == IF ids = <<>> THEN <<>> ELSE Wire(Head(ids)) \o WireSeeds(Tail(ids))

InvalidArgs(op, a) ==
    \/ a.batch_size < 1
    \/ Len(a.num_neighbors) = 0
    \/ op = "SamplingGraphLoader" /\ a.num_seeds < 1
    \/ op = "TrainGraphLoader" /\ Len(a.seed_ids) = 0

\* a constructor call that got past validation
Constructing == call.op \in Constructors /\ call.raised # "ValueError"

\* C5: a constructor given batch_size < 1, an empty num_neighbors,
\* num_seeds < 1 (Sampling) or an empty seed_ids (Train), alone or together,
\* raises the argument error, calls neither _send nor _recv, and leaves no
\* open session.
C5_InvalidArgsNoIO ==
    (call.op \in Constructors /\ InvalidArgs(call.op, call.args))
        => /\ call.raised = "ValueError"
           /\ call.sends = 0
           /\ call.recvs = 0
           /\ call.msg = <<>>
           /\ ~loaders[call.self].returned
           /\ loaders[call.self].closed

C5_Witness ==
    /\ call.op = "TrainGraphLoader"
    /\ call.args.seed_ids = <<>>
    /\ call.args.batch_size >= 1
    /\ Len(call.args.num_neighbors) > 0
    /\ call.raised = "ValueError"

\* the fixed-width fields ahead of the num_neighbors vector, opcode aside
FixedFields(op) == IF op = "EvalGraphLoader" THEN 3 ELSE 4

\* C6: the stored num_neighbors has the length and order of the list given;
\* an entry n < 0 is stored as 2**64 - 1 and an entry n >= 0 as n; the
\* vector in the creation message is that list, 8 bytes per entry.
C6_NeighborsNormalized ==
    Constructing =>
        LET given  == call.args.num_neighbors
            stored == loaders[call.self].num_neighbors
            off    == 1 + (8 * FixedFields(call.op))
        IN  /\ Len(stored) = Len(given)
            /\ \A i \in 1..Len(given) :
                  /\ given[i] < 0  => stored[i] = <<65535, 65535, 65535, 65535>>
                  /\ given[i] >= 0 => stored[i] = <<0, 0, 0, given[i]>>
                  /\ SubSeq(call.msg, off + (8 * i) - 7, off + (8 * i))
                        = IF given[i] < 0 THEN AllOnes ELSE Wire(given[i])

C6_Witness ==
    /\ Constructing
    /\ call.args.num_neighbors = <<5, -1>>
    /\ call.args.batch_size = 2
    /\ loaders[call.self].num_neighbors = <<Big(5), U64_MAX>>

\* the creation message of each variant, field by field
ExpectedNew(op, a) ==
    CASE op = "EvalGraphLoader" ->
             <<EVAL_GRAPH_LOADER_NEW>> \o Wire(a.batch_size)
             \o Wire(Len(a.num_neighbors)) \o Wire(Len(a.tensor_store_name))
             \o WireNeighbors(a.num_neighbors) \o pack_string(a.tensor_store_name)
      [] op = "SamplingGraphLoader" ->
             <<SAMPLING_GRAPH_LOADER_NEW>> \o Wire(a.batch_size) \o Wire(a.num_seeds)
             \o Wire(Len(a.num_neighbors)) \o Wire(Len(a.tensor_store_name))
             \o WireNeighbors(a.num_neighbors) \o pack_string(a.tensor_store_name)
      [] op = "TrainGraphLoader" ->
             <<TRAIN_GRAPH_LOADER_NEW>> \o Wire(a.batch_size)
             \o Wire(Len(a.num_neighbors)) \o Wire(Len(a.tensor_store_name))
             \o Wire(Len(a.seed_ids))
             \o WireNeighbors(a.num_neighbors) \o pack_string(a.tensor_store_name)
             \o WireSeeds(a.seed_ids)

\* C7: each constructor hands exactly one message to _send, made of the
\* opcode, batch_size right after it, and the variant's fields in the order
\* of the layout: counts and lengths first, then num_neighbors, the bytes of
\* the name and, for Train, seed_ids.
C7_CreationLayout ==
    Constructing =>
        /\ call.sends = 1
        /\ call.msg = ExpectedNew(call.op, call.args)
        /\ SubSeq(call.msg, 2, 9) = Wire(call.args.batch_size)

C7_Witness ==
    /\ Constructing
    /\ call.op = "TrainGraphLoader"
    /\ call.args.seed_ids = <<7, 9>>
    /\ call.args.tensor_store_name = <<97, 8364>>
    /\ Len(call.msg) = 1 + 32 + 8 + 4 + 16

\* the server reading a creation message: the fixed fields in wire order,
\* then as many vector entries and name bytes as the fields declare
ReadField(msg, k) == unpack_uint64(Slice(msg, 1 + (8 * (k - 1)), 1 + (8 * k)))

ServerDecode(op, msg) ==
    LET nFixed   == FixedFields(op)
        nnField  == IF op = "SamplingGraphLoader" THEN 3 ELSE 2
        nnLen    == Val(ReadField(msg, nnField))
        nameLen  == Val(ReadField(msg, nnField + 1))
        seedsLen == IF op = "TrainGraphLoader" THEN Val(ReadField(msg, 4)) ELSE 0
        nnAt     == 1 + (8 * nFixed)
        nameAt   == nnAt + (8 * nnLen)
        seedsAt  == nameAt + nameLen
    IN  [ batch_size    |-> ReadField(msg, 1),
          num_seeds     |-> IF op = "SamplingGraphLoader" THEN ReadField(msg, 2) ELSE Big(0),
          num_neighbors |-> unpack_uint64_vector(Slice(msg, nnAt, nameAt)),
          name_bytes    |-> Slice(msg, nameAt, seedsAt),
          seed_ids      |-> unpack_uint64_vector(Slice(msg, seedsAt, seedsAt + (8 * seedsLen))),
          consumed      |-> seedsAt + (8 * seedsLen) ]

\* C8: the server recovers from the creation message the batch_size, the
\* num_neighbors, the name and num_seeds or seed_ids of the session, and
\* reads the message to its end.
C8_RoundTrip ==
    Constructing =>
        LET got == ServerDecode(call.op, call.msg)
        IN  /\ got.batch_size = Big(call.args.batch_size)
            /\ got.num_seeds = Big(call.args.num_seeds)
            /\ got.num_neighbors = loaders[call.self].num_neighbors
            /\ got.name_bytes = pack_string(call.args.tensor_store_name)
            /\ got.seed_ids = MapBig(call.args.seed_ids)
            /\ got.consumed = Len(call.msg)

----------------------------------------------------------------------------
\* Properties of iteration

ExpectedLog(n) == <<GRAPH_LOADER_BEGIN>> \o [i \in 1..(n + 1) |-> GRAPH_LOADER_NEXT]

\* C9 (specification LoopSpec): the loop over a session of size N ends, and
\* when it has ended it has sent one BEGIN followed by N + 1 NEXT, received
\* N batches, and the last NEXT raised StopIteration.
C9_LoopYieldsSize ==
    <>[]( /\ pc = "done"
          /\ Val(loaders[1].size) = server.size
          /\ yielded = server.size
          /\ sentLog = ExpectedLog(server.size)
          /\ call.op = "__next__"
          /\ call.raised = "StopIteration"
          /\ call.ret = "None" )

C9_Witness ==
    /\ pc = "done"
    /\ yielded = 2
    /\ sentLog = <<GRAPH_LOADER_BEGIN, GRAPH_LOADER_NEXT, GRAPH_LOADER_NEXT,
                   GRAPH_LOADER_NEXT>>

\* a payload whose header says no nodes and no edges
ZeroHeader(data) ==
    /\ Len(data) >= 32
    /\ \A i \in 1..16 : data[i] = 0

\* C10 (specification Spec): a NEXT reply with status END_OF_ITERATION makes
\* __next__ raise StopIteration whatever its payload; a reply with the
\* normal status whose header has num_nodes = 0 and num_edges = 0 makes it
\* return a Graph without nodes or edges.
C10_EndIsNotEmptyBatch ==
    (call.op = "__next__" /\ ~call.wasClosed /\ call.rep.fail = "none")
        => /\ call.rep.code = END_OF_ITERATION
                => (call.raised = "StopIteration" /\ call.ret = "None")
           /\ (call.rep.code = SUCCESS /\ ZeroHeader(call.rep.data))
                => /\ call.raised = "None"
                   /\ call.ret = "Graph"
                   /\ call.graph.node_ids = <<>>
                   /\ call.graph.node_labels.data = <<>>
                   /\ call.graph.node_features.data = <<>>
                   /\ call.graph.edge_index = Tensor(<<>>, <<2, 0>>)

C10_Witness ==
    /\ call.op = "__next__"
    /\ call.rep.code = SUCCESS
    /\ call.rep.data = EmptyBatch
    /\ call.ret = "Graph"


----------------------------------------------------------------------------
\* __next__ on an open session, over NEXT payloads of every small shape:
\* well formed, cut at every length, and followed by extra bytes
MaxDim == 2      \* largest num_nodes, num_edges and feature_size tried

DecodeParams ==
    {<<nn, ne, ns, fs>> : nn \in 0..MaxDim, ne \in 0..MaxDim, ns \in 0..1, fs \in 0..MaxDim}
    \cup {<<3, 2, 1, 4>>}

WellFormed == {EncodeGraph(p[1], p[2], p[3], p[4], 0) : p \in DecodeParams}
CutShort   == UNION {{SubSeq(d, 1, k) : k \in 0..(Len(d) - 1)} : d \in WellFormed}
Overlong   == {d \o t : d \in WellFormed,
                        t \in {<<0>>, <<0, 0, 0, 0>>, pack_uint64(Big(5)),
                               pack_uint64(Big(5)) \o pack_uint64(Big(6))}}

DecodeReplies == {Reply("none", d, SUCCESS) : d \in WellFormed \cup CutShort \cup Overlong}

DecodeOpen ==
    /\ loaders[1].cls = "None"
    /\ \E cfg \in ValidEval :
          EvalGraphLoader(1, cfg, Reply("none", pack_uint64(Big(41)) \o pack_uint64(Big(MaxSize)),
                                        SUCCESS))
    /\ UNCHANGED <<loop, channel>>

\* one __next__ per behaviour: a call leaves no trace in the instance, so
\* the calls after it repeat the first
DecodeStep ==
    /\ loaders[1].returned
    /\ call.op # "__next__"
    /\ \E rep \in DecodeReplies : next__(1, rep)
    /\ UNCHANGED <<loop, channel>>

DecodeNext ==
    \/ DecodeOpen
    \/ DecodeStep

DecodeSpec == Init /\ [][DecodeNext]_vars

----------------------------------------------------------------------------
\* Properties of the decoding of a NEXT reply (specification DecodeSpec)

\* the k-th header field of a payload of at least 32 bytes (k = 0..3), and
\* the length the header declares
HdrVal(data, k) == (data[(8 * k) + 7] * 256) + data[(8 * k) + 8]
Declared(data) ==
    32 + (4 * HdrVal(data, 0) * HdrVal(data, 3)) + (8 * HdrVal(data, 0))
       + (16 * HdrVal(data, 1)) + (8 * HdrVal(data, 0))

\* a __next__ that received a reply with the normal status
NormalNext ==
    /\ call.op = "__next__"
    /\ ~call.wasClosed
    /\ call.rep.fail = "none"
    /\ call.rep.code = SUCCESS

\* the batch the server encoded
ExpectedGraph(nn, ne, ns, fs) ==
    [ node_features |-> Tensor([k \in 1..(nn * fs) |-> FloatBits(k)], <<nn, fs>>),
      node_labels   |-> Tensor([i \in 1..nn |-> <<0, 0, 0, 100 + i>>], <<nn>>),
      edge_index    |-> Tensor([j \in 1..(2 * ne) |-> <<0, 0, 0, 200 + j>>], <<2, ne>>),
      node_ids      |-> [i \in 1..nn |-> <<0, 0, 0, 300 + i>>],
      num_seeds     |-> <<0, 0, 0, ns>>,
      feature_size  |-> <<0, 0, 0, fs>> ]

\* C11: a payload of exactly the length its header declares, received with
\* the normal status, makes __next__ return the batch the server encoded:
\* node_features [num_nodes, feature_size] row-major, node_labels, edge_index
\* [2, num_edges] row-major and node_ids, each read where the previous
\* section ended, with num_seeds and feature_size from the header, and as
\* many feature rows, labels and ids as num_nodes.
C11_WellFormedDecodes ==
    (NormalNext /\ Len(call.rep.data) >= 32 /\ Len(call.rep.data) = Declared(call.rep.data))
        => LET d  == call.rep.data
               nn == HdrVal(d, 0)
               ne == HdrVal(d, 1)
               ns == HdrVal(d, 2)
               fs == HdrVal(d, 3)
           IN  /\ call.raised = "None"
               /\ call.ret = "Graph"
               /\ call.graph.node_features.shape = <<nn, fs>>
               /\ Len(call.graph.node_features.data) = nn * fs
               /\ Len(call.graph.node_labels.data) = nn
               /\ Len(call.graph.node_ids) = nn
               /\ call.graph.edge_index.shape = <<2, ne>>
               /\ Len(call.graph.edge_index.data) = 2 * ne
               /\ d = EncodeGraph(nn, ne, ns, fs, 0)
                     => call.graph = ExpectedGraph(nn, ne, ns, fs)

C11_Witness ==
    /\ NormalNext
    /\ call.rep.data = EncodeGraph(3, 2, 1, 4, 0)
    /\ call.ret = "Graph"
    /\ call.graph.node_features.shape = <<3, 4>>
    /\ call.graph.edge_index.shape = <<2, 2>>
    /\ Len(call.graph.node_ids) = 3


\* C12: a payload with the normal status that goes on after the node_ids
\* its header implies makes __next__ fail; no batch is returned.
C12_TrailingBytesFail ==
    (NormalNext /\ Len(call.rep.data) >= 32 /\ Len(call.rep.data) > Declared(call.rep.data))
        => (call.raised # "None" /\ call.ret # "Graph")

\* C13: a payload with the normal status shorter than 32 bytes, or shorter
\* than its header declares, makes __next__ fail, and no batch has fewer
\* node_ids than num_nodes.
C13_ShortPayloadFails ==
    NormalNext =>
        /\ (Len(call.rep.data) < 32 \/ Len(call.rep.data) < Declared(call.rep.data))
              => (call.raised # "None" /\ call.ret # "Graph")
        /\ call.ret = "Graph" => Len(call.graph.node_ids) = HdrVal(call.rep.data, 0)


----------------------------------------------------------------------------
\* Properties of the handling of replies (specification Spec)

\* a call that read a reply from the transport
GotReply == call.recvs = 1 /\ call.rep.fail = "none"

\* C14: a reply whose status is neither the normal one nor END_OF_ITERATION
\* makes the call that read it fail with a failure that carries the status:
\* __next__ returns no batch and a constructor leaves no open session.
C14_ErrorStatusFails ==
    (GotReply /\ call.rep.code \notin {SUCCESS, END_OF_ITERATION})
        => /\ call.raised = "ServerError"
           /\ call.ret = "None"
           /\ call.op \in Constructors => ~loaders[call.self].returned


\* the k-th 64-bit word of a payload, read big-endian
Word(data, k) ==
    << (data[(8 * k) - 7] * 256) + data[(8 * k) - 6], (data[(8 * k) - 5] * 256) + data[(8 * k) - 4],
       (data[(8 * k) - 3] * 256) + data[(8 * k) - 2], (data[(8 * k) - 1] * 256) + data[8 * k] >>

IsOpen(s) == loaders[s].returned /\ ~loaders[s].closed

\* C15: on an open session size() (and __len__) returns the size read from the
\* creation reply; __iter__, __next__, size, __len__ and is_closed leave every
\* field of the session as it was, also when __next__ meets END_OF_ITERATION;
\* size, __len__ and is_closed call neither client._send nor client._recv.
C15_OpenCallsKeepFields ==
    [][\A s \in Sessions :
         (IsOpen(s) /\ call'.self = s /\ call'.op \in Guarded \cup {"is_closed"})
             => /\ loaders'[s] = loaders[s]
                /\ call'.op \in {"size", "__len__"}
                      => /\ call'.raised = "None"
                         /\ call'.value = Word(loaders[s].created, 2)
                /\ call'.op \in {"size", "__len__", "is_closed"}
                      => call'.sends = 0 /\ call'.recvs = 0]_vars

\* the iteration ended on a session that is still open and knows its size
C15_Witness ==
    /\ call.op = "__next__" /\ call.raised = "StopIteration"
    /\ IsOpen(call.self)
    /\ Val(loaders[call.self].size) = MaxSize
    /\ loaders[call.self].size = Word(loaders[call.self].created, 2)


----------------------------------------------------------------------------
\* Several sessions on one client, called one after the other in any order.
\* The server answers the requests of the connection in the order they came,
\* and gives every session it creates an id no other session has.  The
\* transport does not fail here (its failures are in Spec).
NumSessions == 2

MultiCfg   == Cfg(<<97>>, 1, <<5>>, 1, <<7>>)
FreshId    == 41 + Cardinality({t \in Sessions : loaders[t].created # <<>>})
MultiNewReplies    == {Reply("none", pack_uint64(Big(FreshId)) \o pack_uint64(Big(1)), SUCCESS)}
MultiStatusReplies == {Reply("none", <<>>, SUCCESS), NoReply}
MultiNextReplies   == {Reply("none", EmptyBatch, SUCCESS), Reply("none", <<>>, END_OF_ITERATION),
                       NoReply}

\* client._send appends the request to the connection unless it raises;
\* client._recv takes the reply to the oldest request not yet answered
Track ==
    LET sent == IF call'.sends > 0 /\ call'.rep.fail # "send"
                THEN channel.pending \o <<call'.msg>> ELSE channel.pending
        got  == call'.recvs > 0 /\ call'.rep.fail = "none" /\ sent # <<>>
    IN  channel' = [pending  |-> IF got THEN Tail(sent) ELSE sent,
                    answered |-> IF got THEN Head(sent) ELSE <<>>]

MultiInit == InitWith(1..NumSessions) /\ NoLoop

Unborn == {t \in Sessions : loaders[t].cls = "None"}

MultiNewEval     == \E s \in Unborn, rep \in MultiNewReplies :
                        EvalGraphLoader(s, MultiCfg, rep) /\ Track /\ UNCHANGED loop
MultiNewSampling == \E s \in Unborn, rep \in MultiNewReplies :
                        SamplingGraphLoader(s, MultiCfg, rep) /\ Track /\ UNCHANGED loop
MultiNewTrain    == \E s \in Unborn, rep \in MultiNewReplies :
                        TrainGraphLoader(s, MultiCfg, rep) /\ Track /\ UNCHANGED loop
MultiIsClosed    == \E s \in Sessions : is_closed(s) /\ Track /\ UNCHANGED loop
MultiSize        == \E s \in Sessions : size(s) /\ Track /\ UNCHANGED loop
MultiIter        == \E s \in Sessions, rep \in MultiStatusReplies :
                        iter__(s, rep) /\ Track /\ UNCHANGED loop
MultiStep        == \E s \in Sessions, rep \in MultiNextReplies :
                        next__(s, rep) /\ Track /\ UNCHANGED loop
MultiClose       == \E s \in Sessions, rep \in MultiStatusReplies :
                        close(s, rep) /\ Track /\ UNCHANGED loop

MultiNext ==
    \/ MultiNewEval
    \/ MultiNewSampling
    \/ MultiNewTrain
    \/ MultiIsClosed
    \/ MultiSize
    \/ MultiIter
    \/ MultiStep
    \/ MultiClose

MultiSpec == MultiInit /\ [][MultiNext]_vars

----------------------------------------------------------------------------
\* Properties of several sessions on one client (specification MultiSpec)

\* the call went to the network: it is a constructor that reached _new, or a
\* begin, next or close on an open session
Networking ==
    \/ call.op \in Constructors /\ call.raised # "ValueError"
    \/ call.op \in {"__iter__", "__next__", "close"} /\ ~call.wasClosed

\* C16: with a transport that does not fail, every call that goes to the
\* network makes exactly one client._send and then exactly one client._recv,
\* no request is left unanswered when a call ends, and the reply a call reads
\* is the reply to the request that same call sent; the other calls touch the
\* transport not at all.  This holds for every interleaving of the sessions.
C16_OneRequestInFlight ==
    /\ channel.pending = <<>>
    /\ Networking => /\ call.sends = 1 /\ call.recvs = 1
                     /\ call.msg # <<>>
                     /\ channel.answered = call.msg
    /\ (call.op # "none" /\ ~Networking) => (call.sends = 0 /\ call.recvs = 0)

\* a call on one session right after another session was opened and used
C16_Witness ==
    /\ call.op = "__next__" /\ call.raised = "None" /\ call.self = 2
    /\ IsOpen(1) /\ IsOpen(2)
    /\ loaders[1].cls # loaders[2].cls
    /\ channel.answered = call.msg


OpcodeOf(op) ==
    CASE op = "__iter__" -> 12
      [] op = "__next__" -> 11
      [] op = "close"    -> 13

\* C17: every BEGIN, NEXT and CLOSE request is the opcode followed by the 8
\* bytes of the session_id that the creation reply of the very instance the
\* call is made on carried; with ids that differ between sessions, no request
\* carries the id of another session.
C17_OwnSessionId ==
    (call.op \in {"__iter__", "__next__", "close"} /\ call.sends = 1)
        => /\ call.msg = <<OpcodeOf(call.op)>> \o SubSeq(loaders[call.self].created, 1, 8)
           /\ \A t \in Sessions \ {call.self} :
                 loaders[t].created # <<>>
                     => SubSeq(call.msg, 2, 9) # SubSeq(loaders[t].created, 1, 8)

\* the session created first is used after a second one was created
C17_Witness ==
    /\ call.op = "__next__" /\ call.sends = 1 /\ call.self = 1
    /\ IsOpen(2)
    /\ call.msg = <<11, 0, 0, 0, 0, 0, 0, 0, 41>>
    /\ SubSeq(loaders[2].created, 1, 8) = <<0, 0, 0, 0, 0, 0, 0, 42>>


----------------------------------------------------------------------------
\* Properties of transport failures and of the local fields (specification Spec)

\* C18: when client._send or client._recv raises, the call ends there with
\* that failure: nothing is returned, a failed _send is followed by no _recv,
\* the request is not sent again, and a constructor yields no open session.
C18_TransportFailureAborts ==
    /\ call.rep.fail = "send"
          => (call.raised = "TransportError" /\ call.sends = 1 /\ call.recvs = 0)
    /\ call.rep.fail = "recv"
          => (call.raised = "TransportError" /\ call.sends = 1 /\ call.recvs = 1)
    /\ call.rep.fail # "none"
          => /\ call.ret = "None"
             /\ call.op \in Constructors
                   => (~loaders[call.self].returned /\ loaders[call.self].closed)
    /\ call.sends <= 1 /\ call.recvs <= call.sends

\* the _send of a NEXT request raised on an open session
C18_Witness ==
    /\ call.op = "__next__"
    /\ call.rep.fail = "send"
    /\ call.raised = "TransportError"
    /\ call.recvs = 0
    /\ IsOpen(call.self)


\* C19: after a constructor returned or raised, and between calls, the local
\* fields agree: _closed is true exactly when _graph_loader_id is None and
\* exactly when _size is None, and an open session holds the id and the size of
\* its creation reply.
C19_FieldsAgree ==
    \A s \in Sessions :
        loaders[s].cls # "None"
            => /\ loaders[s].closed <=> (loaders[s].graph_loader_id = None)
               /\ loaders[s].closed <=> (loaders[s].size = None)
               /\ ~loaders[s].closed
                     => /\ loaders[s].graph_loader_id = Word(loaders[s].created, 1)
                        /\ loaders[s].size = Word(loaders[s].created, 2)


\* C20: close() on an open session sends CLOSE with the session's id and
\* assigns the fields only after the reply was read: when _send or _recv
\* raises, the session is still open with its id and size and is_closed() is
\* false, so that a later close() sends CLOSE again with the same id.
C20_FailedCloseKeepsOpen ==
    (call.op = "close" /\ ~call.wasClosed)
        => /\ call.sends = 1
           /\ call.msg = <<13>> \o SubSeq(loaders[call.self].created, 1, 8)
           /\ call.rep.fail # "none"
                 => /\ call.raised = "TransportError"
                    /\ ~loaders[call.self].closed
                    /\ loaders[call.self].graph_loader_id = Word(loaders[call.self].created, 1)
                    /\ loaders[call.self].size = Word(loaders[call.self].created, 2)
           /\ call.rep.fail = "none" => loaders[call.self].closed

\* a close() that succeeded after an earlier close() of the session failed
C20_Witness ==
    /\ call.op = "close" /\ ~call.wasClosed
    /\ call.raised = "None"
    /\ closeSent[call.self] = 2
    /\ failures = 1
    /\ loaders[call.self].closed

====
